---- MODULE Spec2Model ----
(***************************************************************************)
(* TrendsAGIClient (src/src/trendsagi/client.py): the constructor, the     *)
(* shared dispatch routine _request and the public operations built on it. *)
(* One action is one synchronous call on the client; the transport's       *)
(* answer (a failure, or a response with a status and a body) is an input  *)
(* of the call.                                                            *)
(***************************************************************************)
EXTENDS Integers, Sequences, FiniteSets, TLC

VARIABLES client, ctor, call, req, outcome, calls, passed, sent

vars == <<client, ctor, call, req, outcome, calls, passed, sent>>

(* Number of public operation calls made on the client in one behaviour. *)
MaxCalls == 2

(***************************************************************************)
(* Python values handed to the client: a type tag and a literal.           *)
(***************************************************************************)
PyNone == [t |-> "None", s |-> ""]
PyStr(s) == [t |-> "str", s |-> s]
PyInt(s) == [t |-> "int", s |-> s]
PyBool(s) == [t |-> "bool", s |-> s]
PyList(s) == [t |-> "list", s |-> s]
PyDict(s) == [t |-> "dict", s |-> s]
SelfRef == [t |-> "TrendsAGIClient", s |-> "self"]

(* Python truth value of v, as `if v` / `not v` / `a and b` test it. *)
Truthy(v) ==
    CASE v.t = "None" -> FALSE
      [] v.t = "str" -> v.s # ""
      [] v.t = "int" -> v.s # "0"
      [] v.t = "bool" -> v.s = "True"
      [] v.t = "list" -> v.s # "[]"
      [] v.t = "dict" -> v.s # "{}"
      [] OTHER -> TRUE

EmptyMap == [k \in {} |-> PyNone]

(* The dict with the given (key, value) items. *)
Dict(items) ==
    [k \in {kv[1] : kv \in items} |-> (CHOOSE kv \in items : kv[1] = k)[2]]

(* FilterNone without its `is not None` test. *)
FilterNone_KeepsNone(m) == m

(* {k: v for k, v in m.items() if v is not None} *)
FilterNone(m) == [k \in {x \in DOMAIN m : m[x] # PyNone} |-> m[k]]

(* {k: v for k, v in locals().items() if v is not None and k != 'self'} *)
FilterNoneAndSelf(m) ==
    [k \in {x \in DOMAIN m : m[x] # PyNone /\ x # "self"} |-> m[k]]

(***************************************************************************)
(* Strings that are cut are sequences of characters.                       *)
(***************************************************************************)
RECURSIVE rstrip(_, _)
rstrip(chars, c) ==
    IF chars # <<>> /\ chars[Len(chars)] = c
    THEN rstrip(SubSeq(chars, 1, Len(chars) - 1), c)
    ELSE chars

RECURSIVE Join(_)
Join(chars) == IF chars = <<>> THEN "" ELSE Head(chars) \o Join(Tail(chars))

(***************************************************************************)
(* The constructor.                                                        *)
(***************************************************************************)
NoHeaders == [k \in {} |-> ""]

NoClient ==
    [constructed |-> FALSE, base_url |-> <<>>,
     session |-> [created |-> FALSE, headers |-> NoHeaders]]

SessionHeaders(api_key) ==
    [h \in {"X-API-Key", "Content-Type", "Accept"} |->
        IF h = "X-API-Key" THEN api_key.s ELSE "application/json"]

(* ApiKeyMissing as `if api_key is None`. *)
ApiKeyMissing_OnlyNone(api_key) == api_key = PyNone

(* `if not api_key` *)
ApiKeyMissing(api_key) == ~Truthy(api_key)

(* StoredBaseUrl cutting a single trailing slash. *)
StoredBaseUrl_OneSlash(base_url) ==
    IF base_url # <<>> /\ base_url[Len(base_url)] = "/"
    THEN SubSeq(base_url, 1, Len(base_url) - 1)
    ELSE base_url

(* base_url.rstrip('/') *)
StoredBaseUrl(base_url) == rstrip(base_url, "/")

ApiKeys == {PyNone, PyStr(""), PyStr("k1")}
BaseUrls == {<<"h">>, <<"h", "/", "/">>}

NoCtor == [done |-> FALSE, api_key |-> PyNone, base_url |-> <<>>, raised |-> ""]

__init__(api_key, base_url) ==
    /\ ~client.constructed
    /\ calls = 0
    /\ IF ApiKeyMissing(api_key)
       THEN /\ ctor' = [done |-> TRUE, api_key |-> api_key, base_url |-> base_url,
                        raised |-> "AuthenticationError"]
            /\ UNCHANGED client
       ELSE /\ ctor' = [done |-> TRUE, api_key |-> api_key, base_url |-> base_url,
                        raised |-> ""]
            /\ client' = [constructed |-> TRUE,
                          base_url |-> StoredBaseUrl(base_url),
                          session |-> [created |-> TRUE,
                                       headers |-> SessionHeaders(api_key)]]
    /\ UNCHANGED <<call, req, outcome, calls, passed, sent>>

Construct == \E api_key \in ApiKeys, base_url \in BaseUrls : __init__(api_key, base_url)

(***************************************************************************)
(* The transport's answer to one session.request call, and response.json().*)
(***************************************************************************)
Statuses == {200, 201, 204, 401, 404, 409, 429, 500}

ObjectWithDetail == "{\"detail\": \"nope\"}"
ObjectNoDetail == "{\"total\": \"0\"}"
ArrayBody == "[]"
NotJson == "<html>"
EmptyBody == ""
Bodies == {ObjectWithDetail, ObjectNoDetail, ArrayBody, NotJson, EmptyBody}

Response(st, b) == [failed |-> FALSE, exc |-> "", msg |-> "", status |-> st, text |-> b]

TransportFailures ==
    {[failed |-> TRUE, exc |-> "ConnectionError", msg |-> "connection refused",
      status |-> 0, text |-> ""]}

Responses == {Response(st, b) : st \in Statuses, b \in Bodies}

TransportResults == TransportFailures \cup Responses

(* The operations answered with every result of TransportResults; the others
   are answered with the results of CommonResults. *)
FullyAnswered ==
    {"get_trends", "perform_recommendation_action", "delete_tracked_x_user",
     "mark_notifications_read"}

CommonResults ==
    TransportFailures \cup
    {Response(200, ObjectNoDetail), Response(200, NotJson), Response(204, EmptyBody),
     Response(404, ObjectWithDetail), Response(429, NotJson), Response(500, ArrayBody)}

Answers(op) == IF op \in FullyAnswered THEN TransportResults ELSE CommonResults

NoTransport == [failed |-> FALSE, exc |-> "", msg |-> "", status |-> 0, text |-> ""]

NoFields == [k \in {} |-> ""]
JNone == [t |-> "None", fields |-> NoFields, s |-> ""]

(* response.json(): the parsed value, or requests.exceptions.JSONDecodeError. *)
ResponseJson(text) ==
    CASE text = ObjectWithDetail ->
            [ok |-> TRUE, msg |-> "",
             value |-> [t |-> "dict", fields |-> [k \in {"detail"} |-> "nope"], s |-> text]]
      [] text = ObjectNoDetail ->
            [ok |-> TRUE, msg |-> "",
             value |-> [t |-> "dict", fields |-> [k \in {"total"} |-> "0"], s |-> text]]
      [] text = ArrayBody ->
            [ok |-> TRUE, msg |-> "",
             value |-> [t |-> "list", fields |-> NoFields, s |-> text]]
      [] OTHER ->
            [ok |-> FALSE, msg |-> "Expecting value: line 1 column 1 (char 0)",
             value |-> JNone]

(***************************************************************************)
(* Outcomes of a call: a returned value or one raised exception, with the  *)
(* arguments its constructor was given and the exception it was raised     *)
(* while handling (cause).                                                 *)
(***************************************************************************)
Return(v) ==
    [kind |-> "return", value |-> v, exc |-> "", nargs |-> 0, status |-> 0,
     detail |-> "", cause |-> ""]

Raise(exc, nargs, status, detail, cause) ==
    [kind |-> "raise", value |-> JNone, exc |-> exc, nargs |-> nargs,
     status |-> status, detail |-> detail, cause |-> cause]

NoOutcome ==
    [kind |-> "none", value |-> JNone, exc |-> "", nargs |-> 0, status |-> 0,
     detail |-> "", cause |-> ""]

NetworkMessage(e) == "Network error communicating with API: " \o e

(* `except requests.exceptions.RequestException as e` around the whole body:
   transport errors and requests' JSONDecodeError are RequestExceptions, the
   client's own errors and AttributeError are not. *)
IsRequestException(exc) == exc \in {"ConnectionError", "JSONDecodeError"}

(* response.json().get('detail', response.text), guarded by
   `except requests.exceptions.JSONDecodeError`. *)
ErrorDetail(text) ==
    LET parsed == ResponseJson(text) IN
    IF ~parsed.ok
    THEN [ok |-> TRUE, detail |-> text, exc |-> "", msg |-> ""]
    ELSE IF parsed.value.t = "dict"
    THEN [ok |-> TRUE,
          detail |-> IF "detail" \in DOMAIN parsed.value.fields
                     THEN parsed.value.fields["detail"] ELSE text,
          exc |-> "", msg |-> ""]
    ELSE [ok |-> FALSE, detail |-> "", exc |-> "AttributeError",
          msg |-> "'" \o parsed.value.t \o "' object has no attribute 'get'"]

(* The status ladder. *)
Classify(status, error_detail) ==
    CASE status = 401 -> Raise("AuthenticationError", 1, 0, error_detail, "")
      [] status = 404 -> Raise("NotFoundError", 2, status, error_detail, "")
      [] status = 409 -> Raise("ConflictError", 2, status, error_detail, "")
      [] status = 429 -> Raise("RateLimitError", 2, status, error_detail, "")
      [] OTHER -> Raise("APIError", 2, status, error_detail, "")

(* What the body of the try block ends in, before the except clause. *)
TryBody(t) ==
    IF t.failed
    THEN Raise(t.exc, 1, 0, t.msg, "")
    ELSE IF 200 <= t.status /\ t.status < 300
    THEN IF t.status = 204
         THEN Return(JNone)
         ELSE LET parsed == ResponseJson(t.text) IN
              IF parsed.ok THEN Return(parsed.value)
              ELSE Raise("JSONDecodeError", 1, 0, parsed.msg, "")
    ELSE LET d == ErrorDetail(t.text) IN
         IF d.ok THEN Classify(t.status, d.detail)
         ELSE Raise(d.exc, 1, 0, d.msg, "")

(* Number of response.json() calls the try block makes. *)
JsonCalls(t) ==
    IF t.failed THEN 0
    ELSE IF 200 <= t.status /\ t.status < 300
    THEN (IF t.status = 204 THEN 0 ELSE 1)
    ELSE 1

(* Transmit sending the request again after a 429. *)
Transmit_RetryOn429(request, t) ==
    IF ~t.failed /\ t.status = 429 THEN <<request, request>> ELSE <<request>>

(* self._session.request(method, url, **kwargs): the requests put on the wire. *)
Transmit(request, t) == <<request>>

_request(method, endpoint, kw, mapping, t) ==
    LET url == Join(client.base_url) \o endpoint
        request == [method |-> method, endpoint |-> endpoint, url |-> url,
                    headers |-> client.session.headers, kw |-> kw,
                    mapping |-> mapping]
        body == TryBody(t)
    IN  [wire |-> Transmit(request, t),
         parses |-> JsonCalls(t),
         outcome |-> IF body.kind = "raise" /\ IsRequestException(body.exc)
                     THEN Raise("TrendsAGIError", 1, 0,
                                NetworkMessage(body.detail), body.exc)
                     ELSE body]

(***************************************************************************)
(* One public operation call: local validation passed, one _request.       *)
(***************************************************************************)
NoCall == [op |-> "", args |-> EmptyMap, validated |-> FALSE,
           transport |-> NoTransport, parses |-> 0]

Do(op, args, method, endpoint, kw, mapping) ==
    /\ client.constructed
    /\ calls < MaxCalls
    /\ \E t \in Answers(op) :
          LET r == _request(method, endpoint, kw, mapping, t) IN
          /\ call' = [op |-> op, args |-> args, validated |-> TRUE,
                      transport |-> t, parses |-> r.parses]
          /\ req' = r.wire
          /\ outcome' = r.outcome
          /\ sent' = sent + Len(r.wire)
    /\ calls' = calls + 1
    /\ passed' = passed + 1
    /\ UNCHANGED <<client, ctor>>

(* A call that raises before reaching _request. *)
LocalFail(op, args, exc, msg) ==
    /\ client.constructed
    /\ calls < MaxCalls
    /\ call' = [op |-> op, args |-> args, validated |-> FALSE,
                transport |-> NoTransport, parses |-> 0]
    /\ req' = <<>>
    /\ outcome' = Raise(exc, 1, 0, msg, "")
    /\ calls' = calls + 1
    /\ UNCHANGED <<client, ctor, passed, sent>>

(***************************************************************************)
(* Arguments of the public operations.  An Optional argument is None or a  *)
(* value; the other arguments hold a value of their declared type.         *)
(***************************************************************************)
Opt(v) == {PyNone, v}
OptStrs == {PyNone, PyStr(""), PyStr("x")}
Ids == {PyInt("7")}
Bools == {PyBool("False"), PyBool("True")}

(* The Optional arguments of one call that are given: none, one or all. *)
FewOrAll(S) == {{}} \cup {{x} : x \in S} \cup {S}
Given(given, name, v) == IF name \in given THEN v ELSE PyNone

get_trends ==
    \E search \in Opt(PyStr("ai")), sort_by \in {PyStr("volume")}, order \in {PyStr("desc")},
       limit \in {PyInt("20")}, offset \in {PyInt("0")}, period \in {PyStr("24h")},
       category \in Opt(PyStr("tech")) :
        LET named == {<<"search", search>>, <<"sort_by", sort_by>>, <<"order", order>>,
                      <<"limit", limit>>, <<"offset", offset>>, <<"period", period>>,
                      <<"category", category>>}
            args == Dict(named)
            locals == Dict({<<"self", SelfRef>>} \cup named)
        IN  Do("get_trends", args, "GET", "/api/trends", "params",
               FilterNoneAndSelf(locals))

get_trend_details ==
    \E trend_id \in Ids :
        Do("get_trend_details", Dict({<<"trend_id", trend_id>>}), "GET",
           "/api/trends/" \o trend_id.s, "none", EmptyMap)

get_trend_analytics ==
    \E trend_id \in Ids, period \in {PyStr("7d")}, start_date \in Opt(PyStr("2024-01-01")),
       end_date \in Opt(PyStr("2024-01-31")) :
        LET args == Dict({<<"trend_id", trend_id>>, <<"period", period>>,
                        <<"start_date", start_date>>, <<"end_date", end_date>>})
            params == Dict({<<"period", period>>, <<"start_date", start_date>>,
                        <<"end_date", end_date>>})
        IN  Do("get_trend_analytics", args, "GET",
               "/api/trends/" \o trend_id.s \o "/analytics", "params",
               FilterNone(params))

search_insights ==
    \E given \in FewOrAll({"key_theme_contains", "audience_keyword", "angle_contains",
                           "sentiment_category", "overall_topic_category_llm",
                           "trend_name_contains"}),
       limit \in {PyInt("20")}, offset \in {PyInt("0")}, sort_by \in {PyStr("timestamp")},
       order \in {PyStr("desc")} :
        LET key_theme_contains == Given(given, "key_theme_contains", PyStr("x"))
            audience_keyword == Given(given, "audience_keyword", PyStr("x"))
            angle_contains == Given(given, "angle_contains", PyStr("x"))
            sentiment_category == Given(given, "sentiment_category", PyStr("x"))
            overall_topic_category_llm ==
                Given(given, "overall_topic_category_llm", PyStr("x"))
            trend_name_contains == Given(given, "trend_name_contains", PyStr("x"))
            args == Dict({<<"key_theme_contains", key_theme_contains>>,
                        <<"audience_keyword", audience_keyword>>,
                        <<"angle_contains", angle_contains>>,
                        <<"sentiment_category", sentiment_category>>,
                        <<"overall_topic_category_llm", overall_topic_category_llm>>,
                        <<"trend_name_contains", trend_name_contains>>,
                        <<"limit", limit>>, <<"offset", offset>>,
                        <<"sort_by", sort_by>>, <<"order", order>>})
            params == Dict({<<"keyThemeContains", key_theme_contains>>,
                        <<"audienceKeyword", audience_keyword>>,
                        <<"angleContains", angle_contains>>,
                        <<"sentimentCategory", sentiment_category>>,
                        <<"overallTopicCategoryLlm", overall_topic_category_llm>>,
                        <<"trendNameContains", trend_name_contains>>,
                        <<"limit", limit>>, <<"offset", offset>>,
                        <<"sort_by", sort_by>>, <<"order", order>>})
        IN  Do("search_insights", args, "GET", "/api/insights/search", "params",
               FilterNone(params))

get_ai_insights ==
    \E trend_id \in Ids, force_refresh \in Bools :
        Do("get_ai_insights",
           Dict({<<"trend_id", trend_id>>, <<"force_refresh", force_refresh>>}), "GET",
           "/api/trends/" \o trend_id.s \o "/ai-insights", "params",
           Dict({<<"force_refresh", force_refresh>>}))

generate_custom_report ==
    \E metrics \in {PyList("['volume']")} :
        LET report_request == Dict({<<"metrics", metrics>>})
        IN  Do("generate_custom_report",
               Dict({<<"report_request", PyDict("{'metrics': " \o metrics.s \o "}")>>}),
               "POST", "/api/reports/custom", "json", report_request)

get_recommendations ==
    \E given \in FewOrAll({"recommendation_type", "source_trend_query", "priority"}),
       limit \in {PyInt("10")}, offset \in {PyInt("0")}, status \in {PyStr("new")} :
        LET recommendation_type == Given(given, "recommendation_type", PyStr("x"))
            source_trend_query == Given(given, "source_trend_query", PyStr("x"))
            priority == Given(given, "priority", PyStr("high"))
            args == Dict({<<"limit", limit>>, <<"offset", offset>>,
                        <<"recommendation_type", recommendation_type>>,
                        <<"source_trend_query", source_trend_query>>,
                        <<"priority", priority>>, <<"status", status>>})
            params == Dict({<<"limit", limit>>, <<"offset", offset>>,
                        <<"type", recommendation_type>>,
                        <<"sourceTrendQ", source_trend_query>>,
                        <<"priority", priority>>, <<"status", status>>})
        IN  Do("get_recommendations", args, "GET", "/api/intelligence/recommendations",
               "params", FilterNone(params))

perform_recommendation_action ==
    \E recommendation_id \in Ids, action \in OptStrs, feedback \in OptStrs :
        LET args == Dict({<<"recommendation_id", recommendation_id>>, <<"action", action>>,
                        <<"feedback", feedback>>})
            payload == Dict({<<"action", action>>, <<"feedback", feedback>>})
        IN  IF Truthy(action) /\ Truthy(feedback)
            THEN LocalFail("perform_recommendation_action", args, "ValueError",
                     "Only one of 'action' or 'feedback' can be provided at a time.")
            ELSE IF ~Truthy(action) /\ ~Truthy(feedback)
            THEN LocalFail("perform_recommendation_action", args, "ValueError",
                     "Either 'action' or 'feedback' must be provided.")
            ELSE Do("perform_recommendation_action", args, "POST",
                    "/api/intelligence/recommendations/" \o recommendation_id.s \o "/action",
                    "json", FilterNone(payload))

get_tracked_x_users ==
    \E q \in Opt(PyStr("x")), min_followers \in Opt(PyInt("100")),
       sort_by \in {PyStr("name_asc")} :
        LET args == Dict({<<"q", q>>, <<"min_followers", min_followers>>,
                        <<"sort_by", sort_by>>})
        IN  Do("get_tracked_x_users", args, "GET", "/api/intelligence/market/x-users",
               "params", FilterNone(args))

get_tracked_x_user ==
    \E entity_id \in Ids :
        Do("get_tracked_x_user", Dict({<<"entity_id", entity_id>>}), "GET",
           "/api/intelligence/market/x-users/" \o entity_id.s, "none", EmptyMap)

create_tracked_x_user ==
    \E handle \in {PyStr("h")}, given \in FewOrAll({"name", "description", "notes"}) :
        LET args == Dict({<<"handle", handle>>, <<"name", Given(given, "name", PyStr("x"))>>,
                        <<"description", Given(given, "description", PyStr("x"))>>,
                        <<"notes", Given(given, "notes", PyStr("x"))>>})
        IN  Do("create_tracked_x_user", args, "POST", "/api/intelligence/market/x-users",
               "json", FilterNone(args))

update_tracked_x_user ==
    \E entity_id \in Ids, notes \in {PyStr("x")} :
        LET updates == Dict({<<"notes", notes>>})
        IN  Do("update_tracked_x_user",
               Dict({<<"entity_id", entity_id>>,
                        <<"updates", PyDict("{'notes': '" \o notes.s \o "'}")>>}),
               "PUT", "/api/intelligence/market/x-users/" \o entity_id.s, "json", updates)

delete_tracked_x_user ==
    \E entity_id \in Ids :
        Do("delete_tracked_x_user", Dict({<<"entity_id", entity_id>>}), "DELETE",
           "/api/intelligence/market/x-users/" \o entity_id.s, "none", EmptyMap)

get_crisis_events ==
    \E given \in FewOrAll({"keyword", "severity", "start_date", "end_date"}),
       limit \in {PyInt("10")}, offset \in {PyInt("0")}, status \in {PyStr("active")},
       time_range \in {PyStr("24h")} :
        LET keyword == Given(given, "keyword", PyStr("x"))
            severity == Given(given, "severity", PyStr("high"))
            start_date == Given(given, "start_date", PyStr("2024-01-01"))
            end_date == Given(given, "end_date", PyStr("2024-01-31"))
            args == Dict({<<"limit", limit>>, <<"offset", offset>>, <<"status", status>>,
                        <<"keyword", keyword>>, <<"severity", severity>>,
                        <<"time_range", time_range>>, <<"start_date", start_date>>,
                        <<"end_date", end_date>>})
            params == Dict({<<"limit", limit>>, <<"offset", offset>>, <<"status", status>>,
                        <<"keyword", keyword>>, <<"severity", severity>>,
                        <<"timeRange", time_range>>, <<"startDate", start_date>>,
                        <<"endDate", end_date>>})
        IN  Do("get_crisis_events", args, "GET", "/api/intelligence/crisis-events",
               "params", FilterNone(params))

get_crisis_event ==
    \E event_id \in Ids :
        Do("get_crisis_event", Dict({<<"event_id", event_id>>}), "GET",
           "/api/intelligence/crisis-events/" \o event_id.s, "none", EmptyMap)

perform_crisis_event_action ==
    \E event_id \in Ids, action \in {PyStr("acknowledge")} :
        Do("perform_crisis_event_action",
           Dict({<<"event_id", event_id>>, <<"action", action>>}), "POST",
           "/api/intelligence/crisis-events/" \o event_id.s \o "/action", "json",
           Dict({<<"action", action>>}))

perform_deep_analysis ==
    \E query \in {PyStr("q")}, force_refresh \in Bools :
        LET args == Dict({<<"query", query>>, <<"force_refresh", force_refresh>>})
        IN  Do("perform_deep_analysis", args, "POST", "/api/intelligence/deep-analysis",
               "json", args)

get_topic_interests ==
    Do("get_topic_interests", EmptyMap, "GET", "/api/user/topic-interests", "none", EmptyMap)

create_topic_interest ==
    \E keyword \in {PyStr("ai")}, alert_condition_type \in {PyStr("volume")},
       volume_threshold_value \in Opt(PyInt("1000")),
       percentage_growth_value \in Opt(PyInt("50")) :
        LET args == Dict({<<"keyword", keyword>>,
                        <<"alert_condition_type", alert_condition_type>>,
                        <<"volume_threshold_value", volume_threshold_value>>,
                        <<"percentage_growth_value", percentage_growth_value>>})
        IN  Do("create_topic_interest", args, "POST", "/api/user/topic-interests", "json",
               FilterNone(args))

delete_topic_interest ==
    \E interest_id \in Ids :
        Do("delete_topic_interest", Dict({<<"interest_id", interest_id>>}), "DELETE",
           "/api/user/topic-interests/" \o interest_id.s, "none", EmptyMap)

get_export_settings ==
    Do("get_export_settings", EmptyMap, "GET", "/api/user/export/settings", "none", EmptyMap)

save_export_settings ==
    \E destination \in {PyStr("s3")}, config \in {PyDict("{}")}, schedule \in {PyStr("none")},
       schedule_time \in Opt(PyStr("09:00")), is_active \in {PyBool("False")},
       config_id \in Opt(PyInt("7")) :
        LET args == Dict({<<"destination", destination>>, <<"config", config>>,
                        <<"schedule", schedule>>, <<"schedule_time", schedule_time>>,
                        <<"is_active", is_active>>, <<"config_id", config_id>>})
            payload == Dict({<<"id", config_id>>, <<"destination", destination>>,
                        <<"config", config>>, <<"schedule", schedule>>,
                        <<"schedule_time", schedule_time>>, <<"is_active", is_active>>})
        IN  Do("save_export_settings", args, "POST", "/api/user/export/settings", "json",
               FilterNone(payload))

delete_export_setting ==
    \E config_id \in Ids :
        Do("delete_export_setting", Dict({<<"config_id", config_id>>}), "DELETE",
           "/api/user/export/settings/" \o config_id.s, "none", EmptyMap)

get_export_history ==
    \E limit \in {PyInt("15")}, offset \in {PyInt("0")} :
        LET args == Dict({<<"limit", limit>>, <<"offset", offset>>})
        IN  Do("get_export_history", args, "GET", "/api/user/export/history", "params", args)

run_export_now ==
    \E config_id \in Ids :
        Do("run_export_now", Dict({<<"config_id", config_id>>}), "POST",
           "/api/user/export/configurations/" \o config_id.s \o "/run-now", "none", EmptyMap)

get_dashboard_stats ==
    Do("get_dashboard_stats", EmptyMap, "GET", "/api/user/dashboard/stats", "none", EmptyMap)

get_recent_notifications ==
    \E limit \in {PyInt("10")} :
        Do("get_recent_notifications", Dict({<<"limit", limit>>}), "GET",
           "/api/user/notifications/recent", "params", Dict({<<"limit", limit>>}))

mark_notifications_read ==
    \E ids \in Opt(PyList("[1]")) :
        Do("mark_notifications_read", Dict({<<"ids", ids>>}), "POST",
           "/api/user/notifications/mark-read", "json",
           Dict({<<"ids", IF ids # PyNone THEN ids ELSE PyList("[]")>>}))

get_available_plans ==
    Do("get_available_plans", EmptyMap, "GET", "/api/plans", "none", EmptyMap)

get_api_status ==
    Do("get_api_status", EmptyMap, "GET", "/api/status", "none", EmptyMap)

get_api_status_history ==
    Do("get_api_status_history", EmptyMap, "GET", "/api/status-history", "none", EmptyMap)

(***************************************************************************)
(* The client's life: construction, then calls one after another.          *)
(***************************************************************************)
Init ==
    /\ client = NoClient
    /\ ctor = NoCtor
    /\ call = NoCall
    /\ req = <<>>
    /\ outcome = NoOutcome
    /\ calls = 0
    /\ passed = 0
    /\ sent = 0

Next ==
    \/ Construct
    \/ get_trends
    \/ get_trend_details
    \/ get_trend_analytics
    \/ search_insights
    \/ get_ai_insights
    \/ generate_custom_report
    \/ get_recommendations
    \/ perform_recommendation_action
    \/ get_tracked_x_users
    \/ get_tracked_x_user
    \/ create_tracked_x_user
    \/ update_tracked_x_user
    \/ delete_tracked_x_user
    \/ get_crisis_events
    \/ get_crisis_event
    \/ perform_crisis_event_action
    \/ perform_deep_analysis
    \/ get_topic_interests
    \/ create_topic_interest
    \/ delete_topic_interest
    \/ get_export_settings
    \/ save_export_settings
    \/ delete_export_setting
    \/ get_export_history
    \/ run_export_now
    \/ get_dashboard_stats
    \/ get_recent_notifications
    \/ mark_notifications_read
    \/ get_available_plans
    \/ get_api_status
    \/ get_api_status_history

Spec == Init /\ [][Next]_vars

(***************************************************************************)
(* Vocabulary of the properties.                                           *)
(***************************************************************************)
Answer == call.transport
Dispatched == call.validated
GotResponse == Dispatched /\ ~Answer.failed
Is2xx(st) == 200 <= st /\ st < 300

Taxonomy ==
    {"AuthenticationError", "NotFoundError", "ConflictError", "RateLimitError",
     "APIError", "TrendsAGIError"}

KindForStatus(st) ==
    CASE st = 401 -> "AuthenticationError"
      [] st = 404 -> "NotFoundError"
      [] st = 409 -> "ConflictError"
      [] st = 429 -> "RateLimitError"
      [] OTHER -> "APIError"

(* The detail of an error body: its `detail` field when it is JSON with that
   field, the raw text otherwise. *)
DetailOf(text) ==
    LET parsed == ResponseJson(text) IN
    IF parsed.ok /\ "detail" \in DOMAIN parsed.value.fields
    THEN parsed.value.fields["detail"]
    ELSE text

(* C1: a non-2xx response is classified by its status alone: 401, 404, 409 and
   429 raise their own error kind carrying the status and the detail, every
   other status raises APIError. *)
C1_ClassifiedByStatus ==
    (GotResponse /\ ~Is2xx(Answer.status)) =>
        /\ outcome.kind = "raise"
        /\ outcome.exc = KindForStatus(Answer.status)
        /\ Answer.status \in {401, 404, 409, 429} =>
              /\ outcome.status = Answer.status
              /\ outcome.detail = DetailOf(Answer.text)

(* C2: every _request ends in a returned value or in one raised error, and a
   raised error is one of the six kinds of the taxonomy, whatever the transport
   did and whatever the status and the body. *)
C2_ClosedTaxonomy ==
    Dispatched =>
        /\ outcome.kind \in {"return", "raise"}
        /\ outcome.kind = "raise" => outcome.exc \in Taxonomy

(* C3: the network error is raised exactly when the transport failed before any
   response was obtained, and then wraps the cause's message. *)
C3_NetworkErrorIffNoResponse ==
    Dispatched =>
        /\ (outcome.kind = "raise" /\ outcome.exc = "TrendsAGIError") <=> Answer.failed
        /\ Answer.failed => outcome.detail = NetworkMessage(Answer.msg)

(* C4: a 204 returns None without parsing; any other 2xx returns the parsed
   body, and fails with a parse error when the body is not JSON. *)
C4_SuccessPath ==
    (GotResponse /\ Is2xx(Answer.status)) =>
        IF Answer.status = 204
        THEN outcome = Return(JNone) /\ call.parses = 0
        ELSE IF ResponseJson(Answer.text).ok
        THEN outcome = Return(ResponseJson(Answer.text).value)
        ELSE /\ outcome.kind = "raise"
             /\ outcome.exc = "JSONDecodeError"

(* C5: every non-2xx response raises a classified error whose detail is the
   body's `detail` field, or the raw text when the body is not JSON or has no
   such field. *)
C5_DetailExtraction ==
    (GotResponse /\ ~Is2xx(Answer.status)) =>
        /\ outcome.kind = "raise"
        /\ outcome.exc \in Taxonomy \ {"TrendsAGIError"}
        /\ outcome.detail = DetailOf(Answer.text)

(* C6: perform_recommendation_action raises a local validation error, sending
   nothing, unless exactly one of action and feedback is supplied, and then
   sends one POST whose body holds only the supplied argument's key; for None,
   empty and non-empty strings alike. *)
(* An argument counts as supplied as the method's own validation reads it:
   neither None nor empty. *)
Supplied(v) == Truthy(v)

C6_ExactlyOneOf ==
    call.op = "perform_recommendation_action" =>
        LET action == call.args["action"]
            feedback == call.args["feedback"]
        IN  IF Supplied(action) # Supplied(feedback)
            THEN /\ Dispatched
                 /\ Len(req) = 1
                 /\ req[1].method = "POST"
                 /\ DOMAIN req[1].mapping =
                        (IF Supplied(action) THEN {"action"} ELSE {"feedback"})
            ELSE /\ ~Dispatched
                 /\ req = <<>>
                 /\ outcome.kind = "raise"
                 /\ outcome.exc = "ValueError"

(* The operations that assemble their query or body from named arguments:
   the request fields of each, and its Optional arguments with their field. *)
RequestFields(op) ==
    CASE op = "get_trends" ->
            {"search", "sort_by", "order", "limit", "offset", "period", "category"}
      [] op = "get_trend_analytics" -> {"period", "start_date", "end_date"}
      [] op = "search_insights" ->
            {"keyThemeContains", "audienceKeyword", "angleContains", "sentimentCategory",
             "overallTopicCategoryLlm", "trendNameContains", "limit", "offset", "sort_by",
             "order"}
      [] op = "get_ai_insights" -> {"force_refresh"}
      [] op = "get_recommendations" ->
            {"limit", "offset", "type", "sourceTrendQ", "priority", "status"}
      [] op = "perform_recommendation_action" -> {"action", "feedback"}
      [] op = "get_tracked_x_users" -> {"q", "min_followers", "sort_by"}
      [] op = "create_tracked_x_user" -> {"handle", "name", "description", "notes"}
      [] op = "get_crisis_events" ->
            {"limit", "offset", "status", "keyword", "severity", "timeRange", "startDate",
             "endDate"}
      [] op = "perform_crisis_event_action" -> {"action"}
      [] op = "perform_deep_analysis" -> {"query", "force_refresh"}
      [] op = "create_topic_interest" ->
            {"keyword", "alert_condition_type", "volume_threshold_value",
             "percentage_growth_value"}
      [] op = "save_export_settings" ->
            {"id", "destination", "config", "schedule", "schedule_time", "is_active"}
      [] op = "get_export_history" -> {"limit", "offset"}
      [] op = "get_recent_notifications" -> {"limit"}
      [] op = "mark_notifications_read" -> {"ids"}
      [] OTHER -> {}

OptionalArgs(op) ==
    CASE op = "get_trends" -> {<<"search", "search">>, <<"category", "category">>}
      [] op = "get_trend_analytics" ->
            {<<"start_date", "start_date">>, <<"end_date", "end_date">>}
      [] op = "search_insights" ->
            {<<"key_theme_contains", "keyThemeContains">>,
             <<"audience_keyword", "audienceKeyword">>,
             <<"angle_contains", "angleContains">>,
             <<"sentiment_category", "sentimentCategory">>,
             <<"overall_topic_category_llm", "overallTopicCategoryLlm">>,
             <<"trend_name_contains", "trendNameContains">>}
      [] op = "get_recommendations" ->
            {<<"recommendation_type", "type">>, <<"source_trend_query", "sourceTrendQ">>,
             <<"priority", "priority">>}
      [] op = "perform_recommendation_action" ->
            {<<"action", "action">>, <<"feedback", "feedback">>}
      [] op = "get_tracked_x_users" -> {<<"q", "q">>, <<"min_followers", "min_followers">>}
      [] op = "create_tracked_x_user" ->
            {<<"name", "name">>, <<"description", "description">>, <<"notes", "notes">>}
      [] op = "get_crisis_events" ->
            {<<"keyword", "keyword">>, <<"severity", "severity">>,
             <<"start_date", "startDate">>, <<"end_date", "endDate">>}
      [] op = "create_topic_interest" ->
            {<<"volume_threshold_value", "volume_threshold_value">>,
             <<"percentage_growth_value", "percentage_growth_value">>}
      [] op = "save_export_settings" ->
            {<<"schedule_time", "schedule_time">>, <<"config_id", "id">>}
      [] op = "mark_notifications_read" -> {<<"ids", "ids">>}
      [] OTHER -> {}

AssemblingOps ==
    {"get_trends", "get_trend_analytics", "search_insights", "get_ai_insights",
     "get_recommendations", "perform_recommendation_action", "get_tracked_x_users",
     "create_tracked_x_user", "get_crisis_events", "perform_crisis_event_action",
     "perform_deep_analysis", "create_topic_interest", "save_export_settings",
     "get_export_history", "get_recent_notifications", "mark_notifications_read"}

NoNullNoStrayKey(op, mapping) ==
    /\ \A k \in DOMAIN mapping : mapping[k] # PyNone
    /\ DOMAIN mapping \subseteq RequestFields(op)

KeyIffGiven(op, args, mapping) ==
    \A af \in OptionalArgs(op) : (af[2] \in DOMAIN mapping) <=> (args[af[1]] # PyNone)

(* C7 as stated: in every operation that assembles a mapping from its named
   arguments, an Optional argument's key is sent iff the argument is not None,
   no entry is null and no key is foreign to the operation. *)
C7_OmitsUnsetEverywhere ==
    (Dispatched /\ call.op \in AssemblingOps) =>
        \A i \in DOMAIN req :
            /\ KeyIffGiven(call.op, call.args, req[i].mapping)
            /\ NoNullNoStrayKey(call.op, req[i].mapping)

(* C7 amended: the same, except that mark_notifications_read always sends
   `ids`, as the empty list when the argument is None. *)
C7_OmitsUnset ==
    (Dispatched /\ call.op \in AssemblingOps) =>
        \A i \in DOMAIN req :
            /\ NoNullNoStrayKey(call.op, req[i].mapping)
            /\ IF call.op = "mark_notifications_read"
               THEN /\ DOMAIN req[i].mapping = {"ids"}
                    /\ req[i].mapping["ids"] =
                          (IF call.args["ids"] = PyNone THEN PyList("[]")
                           ELSE call.args["ids"])
               ELSE KeyIffGiven(call.op, call.args, req[i].mapping)

C7_Witness ==
    /\ Dispatched
    /\ call.op = "get_trends"
    /\ call.args["search"] = PyNone
    /\ call.args["category"] # PyNone
    /\ Len(req) = 1
    /\ "search" \notin DOMAIN req[1].mapping
    /\ "category" \in DOMAIN req[1].mapping

(* C8: construction with an empty or absent credential raises
   AuthenticationError, leaves no client and no session and sends nothing;
   with a non-empty credential it succeeds and sends nothing either. *)
C8_ConstructorCredential ==
    /\ ~ctor.done => (~client.constructed /\ ~client.session.created /\ sent = 0)
    /\ ctor.done =>
          IF ctor.api_key = PyNone \/ ctor.api_key = PyStr("")
          THEN /\ ctor.raised = "AuthenticationError"
               /\ ~client.constructed
               /\ ~client.session.created
               /\ sent = 0
               /\ req = <<>>
          ELSE /\ ctor.raised = ""
               /\ client.constructed
               /\ client.session.created
               /\ calls = 0 => (sent = 0 /\ req = <<>>)

C8_Witness ==
    /\ ctor.done
    /\ ctor.api_key = PyStr("")
    /\ ctor.raised = "AuthenticationError"
    /\ ~client.constructed

(* C9: a call that passes local validation puts exactly one request on the
   wire, whatever its outcome, and a call that fails it puts none; the
   requests sent so far number the calls that passed validation. *)
C9_OneRoundTrip ==
    /\ sent = passed
    /\ passed <= calls
    /\ calls > 0 => (IF call.validated THEN Len(req) = 1 ELSE req = <<>>)
    /\ calls > 0 => outcome.kind \in {"return", "raise"}

C9_Witness ==
    /\ calls = 2
    /\ passed = 1
    /\ sent = 1
    /\ call.validated
    /\ outcome.kind = "raise"
    /\ outcome.exc = "RateLimitError"

(* C10: once constructed the client's base address and headers never change;
   the base address is the one given without its trailing slashes, the headers
   are the credential given and JSON content types, and every request sent
   goes to base address + path with those headers. *)
IsBaseOf(stored, given) ==
    /\ Len(stored) <= Len(given)
    /\ SubSeq(given, 1, Len(stored)) = stored
    /\ \A i \in (Len(stored) + 1)..Len(given) : given[i] = "/"
    /\ (stored # <<>> => stored[Len(stored)] # "/")

FixedHeaders(h) ==
    /\ DOMAIN h = {"X-API-Key", "Content-Type", "Accept"}
    /\ h["X-API-Key"] = ctor.api_key.s
    /\ h["Content-Type"] = "application/json"
    /\ h["Accept"] = "application/json"

C10_ContextImmutable ==
    /\ [][client.constructed => client' = client]_vars
    /\ [](client.constructed =>
            /\ IsBaseOf(client.base_url, ctor.base_url)
            /\ FixedHeaders(client.session.headers))
    /\ [](\A i \in DOMAIN req :
            /\ req[i].url = Join(client.base_url) \o req[i].endpoint
            /\ FixedHeaders(req[i].headers))

C10_Witness ==
    /\ calls = 2
    /\ ctor.base_url = <<"h", "/", "/">>
    /\ client.base_url = <<"h">>
    /\ Len(req) = 1
    /\ req[1].url = "h/api/user/topic-interests/7"
    /\ req[1].headers["X-API-Key"] = "k1"
    /\ outcome.kind = "raise"

====
